---- MODULE Spec2Model ----
(***************************************************************************)
(* Model of the outbound request layer of the bot                          *)
(* (src/telegram_bot/services/api_service.py): the retry loop              *)
(* _make_request_with_retry and its two clients send_to_claude and         *)
(* transcribe_audio, and the message handlers that call them              *)
(* (src/handlers/message_handler.py, src/handlers/audio_handler.py,        *)
(* src/telegram_bot/handlers/photo_handler.py).                            *)
(*                                                                         *)
(* Every call is a coroutine with its own locals; the model keeps them in  *)
(* functions over Calls.  Optional values (a JSON key that may be absent,  *)
(* Python's None) are sequences of length 0 or 1.  Durations are whole     *)
(* seconds.                                                                *)
(***************************************************************************)
EXTENDS Integers, Sequences, FiniteSets, TLC

(***************************************************************************)
(* Program constants                                                       *)
(***************************************************************************)
\* faulty variants of MAX_RETRIES: one attempt too many; two too many
MaxRetriesOffByOne == 3 + 1

MaxRetriesFive == 3 + 2

MAX_RETRIES == 3
RETRY_DELAY == 1

(***************************************************************************)
(* Bounds of the model                                                     *)
(***************************************************************************)
MaxTokens == 2
MaxChoices == 1

Calls == {1, 2}
SoloCalls == {1}

(***************************************************************************)
(* Inputs: what one HTTP attempt can produce.                              *)
(* status = 0 means that session.request raised before any response;       *)
(* exc names the exception raised inside the try block ("none": the block  *)
(* ran to its return / continue).                                          *)
(***************************************************************************)
Statuses == {200, 400, 401, 403, 404, 429, 500, 502, 503}
Excs == {"TimeoutError", "ClientError", "OtherException"}

Outcomes ==
    [status : Statuses, exc : {"none"} \cup Excs] \cup [status : {0}, exc : Excs]

PairOutcomes ==
    { o \in Outcomes : o.status \in {0, 200, 404, 503} /\ o.exc \in {"none", "TimeoutError"} }

(***************************************************************************)
(* JSON bodies of a 200 response.                                          *)
(***************************************************************************)
Contents == {"", "hi"}
Tokens == (0..MaxTokens) \cup {12}

OptContent == {<<>>} \cup { <<s>> : s \in Contents }
ChoiceEntries ==
    {[message |-> <<>>]} \cup { [message |-> <<[content |-> oc]>>] : oc \in OptContent }
ChoiceLists == UNION { [1..n -> ChoiceEntries] : n \in 0..MaxChoices }
OptChoices == {<<>>} \cup { <<l>> : l \in ChoiceLists }
OptTokens == {<<>>} \cup { <<t>> : t \in Tokens }
OptUsage == {<<>>} \cup { <<[total_tokens |-> ot]>> : ot \in OptTokens }

NoBody == [choices |-> <<>>, usage |-> <<>>, text |-> <<>>]
ClaudeBodies == [choices : OptChoices, usage : OptUsage, text : {<<>>}]
WhisperBodies == [choices : {<<>>}, usage : {<<>>}, text : OptContent]

HiBody ==
    [choices |-> << << [message |-> <<[content |-> <<"hi">>]>>] >> >>,
     usage |-> << [total_tokens |-> <<12>>] >>,
     text |-> <<>>]
PairClaudeBodies == {HiBody, [choices |-> << <<>> >>, usage |-> <<>>, text |-> <<>>]}
PairWhisperBodies == {[choices |-> <<>>, usage |-> <<>>, text |-> <<"hi">>]}

(***************************************************************************)
(* Audio file paths handed to transcribe_audio, as sequences of            *)
(* characters.                                                             *)
(***************************************************************************)
Paths ==
    { <<"v", ".", "o", "g", "g">>,
      <<"v", ".", "o", "g", "a">>,
      <<"t", "/", "c", ".", "w", "a", "v">>,
      <<"a", ".", "m", "4", "a">>,
      <<"t", ".", "m", "p", "3">>,
      <<"o", "g", "g">>,
      <<"a", ".", "O", "G", "G">>,
      <<"d", ".", "o", "g", "g", "/", "t", ".", "m", "p", "3">>,
      <<"w", "a", "v", ".", "m", "4", "a", ".">> }

PairPaths == { <<"t", "/", "v", ".", "o", "g", "g">>, <<"t", "/", "v", ".", "m", "p", "3">> }

VARIABLES
    fn,         \* which client function the call runs ("none" before the call)
    pc,         \* position of the coroutine
    attempt,    \* loop variable of _make_request_with_retry
    requests,   \* number of session.request calls issued by the run
    hist,       \* outcomes of the attempts made so far, with the branch taken
    slept,      \* wait_time of every asyncio.sleep started, in order
    ret,        \* value returned by _make_request_with_retry
    released,   \* the returned response has left its request context
    body,       \* JSON body carried by the 200 response
    form,       \* state of the FormData object of transcribe_audio
    sentForm,   \* state of the request body handed to the attempt in flight
    result,     \* string returned by the client function
    raised,     \* the client function raised to its caller
    logged,     \* calls of _log_request_to_db made by the call
    runRaised,  \* _make_request_with_retry let an exception out to its caller
    ctype,      \* content_type chosen by transcribe_audio
    apath,      \* audio_file_path given to transcribe_audio
    hkind,      \* handler: type of the incoming message ("none" before it arrives)
    hpc,        \* handler: position of the handler coroutine
    sent,       \* handler: message.answer calls, with whether each was delivered
    saves,      \* handler: _save_message_and_response calls
    tmp,        \* handler: temporary files that exist on disk
    conv,       \* handler: how _convert_audio_to_mp3 ended ("none": not called)
    hpath,      \* handler: audio_file_path handed to transcribe_audio
    delFailed,  \* handler: an os.unlink of a temporary file raised
    fsize,      \* handler: file_size reported for the photo / audio (0: none)
    ocrText,    \* handler: the texts extract_text_from_photo returned to handle_photo
    ocr_reader, \* ocr_service: the module-level _ocr_reader (0: None)
    ocr_lock,   \* ocr_service: the task that holds _ocr_lock (0: free)
    built,      \* ocr_service: number of EasyOCR readers constructed
    otask,      \* ocr_service: the tasks running _initialize_ocr_reader / extract_text_from_photo
    users,      \* database: the rows of the users table
    clock,      \* database: the time datetime.now gives
    etask       \* the tasks running _ensure_user

cvars == <<fn, pc, attempt, requests, hist, slept, ret, released, body, form,
           sentForm, result, raised, logged, runRaised, ctype, apath>>

hvars == <<hkind, hpc, sent, saves, tmp, conv, hpath, delFailed, fsize, ocrText>>

ovars == <<ocr_reader, ocr_lock, built, otask>>

uvars == <<users, clock, etask>>

evars == <<ocr_reader, ocr_lock, built, otask, users, clock, etask>>

vars == <<fn, pc, attempt, requests, hist, slept, ret, released, body, form,
          sentForm, result, raised, logged, runRaised, ctype, apath, hkind, hpc,
          sent, saves, tmp, conv, hpath, delFailed, fsize, ocrText, ocr_reader,
          ocr_lock, built, otask, users, clock, etask>>

(***************************************************************************)
(* _make_request_with_retry: the decisions of the loop body                *)
(***************************************************************************)
\* faulty variants of StatusClass: 500 itself not retried; every 4xx retried
StatusClassAbove500(s) ==
    IF s = 200 THEN "success"
    ELSE IF s = 429 THEN "retry"
    ELSE IF s > 500 THEN "retry"
    ELSE "fatal"

StatusClassRetry4xx(s) ==
    IF s = 200 THEN "success"
    ELSE IF s = 429 THEN "retry"
    ELSE IF s >= 400 THEN "retry"
    ELSE "fatal"

StatusClass(s) ==
    IF s = 200 THEN "success"
    ELSE IF s = 429 THEN "retry"
    ELSE IF s >= 500 THEN "retry"
    ELSE "fatal"

\* faulty variants of ExcClass: the final except Exception clause is
\* missing; timeouts are not retried; client errors are not retried; any
\* other exception is retried
ExcClassOtherRetries(e) == "retry"

ExcClassNoCatchAll(e) ==
    IF e = "TimeoutError" THEN "retry"
    ELSE IF e = "ClientError" THEN "retry"
    ELSE "propagate"

ExcClassTimeoutAborts(e) ==
    IF e = "TimeoutError" THEN "abort"
    ELSE IF e = "ClientError" THEN "retry"
    ELSE "abort"

ExcClassClientErrorAborts(e) ==
    IF e = "TimeoutError" THEN "retry"
    ELSE IF e = "ClientError" THEN "abort"
    ELSE "abort"

ExcClass(e) ==
    IF e = "TimeoutError" THEN "retry"
    ELSE IF e = "ClientError" THEN "retry"
    ELSE "abort"

\* faulty variant of HasAttemptsLeft: the last attempt also backs off
HasAttemptsLeftInclusive(a) == a <= MAX_RETRIES - 1

HasAttemptsLeft(a) == a < MAX_RETRIES - 1

\* faulty variants of WaitTime: the backoff does not grow; the exponent is
\* a counter shared by all calls
WaitTimeConstant(a) == RETRY_DELAY

WaitTimeGlobalCounter(a) == RETRY_DELAY * (2 ^ (requests[1] + requests[2] - 1))

WaitTime(a) == RETRY_DELAY * (2 ^ a)

LoopContinues(a) == a < MAX_RETRIES

\* faulty variant of Returned: the last error response is handed to the caller
ReturnedLastResponse(cls) == IF cls \in {"success", "retry"} THEN "response" ELSE "None"

Returned(cls) == IF cls = "success" THEN "response" ELSE "None"

\* the branches that await response.text() inside the try block
ReadsErrorText(s, a) ==
    \/ StatusClass(s) = "fatal"
    \/ StatusClass(s) = "retry" /\ ~HasAttemptsLeft(a)

OutcomeClass(o) == IF o.exc # "none" THEN ExcClass(o.exc) ELSE StatusClass(o.status)

ValidOutcome(o, a) ==
    \/ o.exc = "none"
    \/ o.status = 0
    \/ ReadsErrorText(o.status, a)

(***************************************************************************)
(* send_to_claude / transcribe_audio: parsing of the body                  *)
(***************************************************************************)
GetChoices(b) == IF b.choices = <<>> THEN <<>> ELSE b.choices[1]

\* faulty variant of GetContent: str(message.get("content")) turns an absent key into "None"
GetContentStr(choices) ==
    LET message == choices[1].message
    IN  IF message = <<>> THEN "None"
        ELSE IF message[1].content = <<>> THEN "None"
        ELSE message[1].content[1]

GetContent(choices) ==
    LET message == choices[1].message
    IN  IF message = <<>> THEN ""
        ELSE IF message[1].content = <<>> THEN ""
        ELSE message[1].content[1]

GetTokens(b) == IF b.usage = <<>> THEN <<>> ELSE b.usage[1].total_tokens

\* audio_file_path.split("/")[-1]
LastSegment(p) ==
    LET slashes == { i \in 1..Len(p) : p[i] = "/" }
        start == IF slashes = {} THEN 1
                 ELSE (CHOOSE i \in slashes : \A j \in slashes : j <= i) + 1
    IN  SubSeq(p, start, Len(p))

\* str.endswith
EndsWith(s, suffix) ==
    /\ Len(s) >= Len(suffix)
    /\ SubSeq(s, Len(s) - Len(suffix) + 1, Len(s)) = suffix

\* faulty variant of ContentType: .oga is forgotten
ContentTypeNoOga(filename) ==
    IF EndsWith(filename, <<".", "o", "g", "g">>) THEN "audio/ogg"
    ELSE IF EndsWith(filename, <<".", "w", "a", "v">>) THEN "audio/wav"
    ELSE IF EndsWith(filename, <<".", "m", "4", "a">>) THEN "audio/m4a"
    ELSE "audio/mpeg"

ContentType(filename) ==
    IF EndsWith(filename, <<".", "o", "g", "g">>) \/ EndsWith(filename, <<".", "o", "g", "a">>)
    THEN "audio/ogg"
    ELSE IF EndsWith(filename, <<".", "w", "a", "v">>) THEN "audio/wav"
    ELSE IF EndsWith(filename, <<".", "m", "4", "a">>) THEN "audio/m4a"
    ELSE "audio/mpeg"

GetText(b) == IF b.text = <<>> THEN "" ELSE b.text[1]

\* faulty variant of NoResponseResult: an error text is returned instead of ""
NoResponseResultText(f) == "error"

\* return "" of the two client functions when the retry run gave None
NoResponseResult(f) == ""

\* except Exception: of the two client functions
ClientCatches(e) ==
    e \in {"ClientConnectionError", "FileNotFoundError", "SQLAlchemyError", "OtherException"}

(***************************************************************************)
(* _log_request_to_db / _save_message_and_response: one session, the       *)
(* message is added and flushed (it gets its id), the response that refers *)
(* to it is added, then one commit.  An exception at any point leaves the  *)
(* async with block without a commit, which rolls the session back.        *)
(* PersistRows gives the rows the call leaves in storage.                  *)
(***************************************************************************)
FailPoints == {"none", "flush", "commit"}

NextId(stored, t) == 1 + Cardinality({ r \in stored : r.table = t })

\* faulty variant of PersistRows: the flush is a commit of its own
PersistRowsFlushCommits(stored, failAt) ==
    LET message == [table |-> "messages", id |-> NextId(stored, "messages"), message_id |-> 0]
        response == [table |-> "responses", id |-> NextId(stored, "responses"),
                     message_id |-> message.id]
    IN  IF failAt = "none" THEN {message, response}
        ELSE IF failAt = "commit" THEN {message}
        ELSE {}

PersistRows(stored, failAt) ==
    LET message == [table |-> "messages", id |-> NextId(stored, "messages"), message_id |-> 0]
        response == [table |-> "responses", id |-> NextId(stored, "responses"),
                     message_id |-> message.id]
    IN  IF failAt = "none" THEN {message, response} ELSE {}

\* the rows in storage: what the persistence calls made so far have left
Stored ==
    UNION ((UNION { { logged[c][i].rows : i \in 1..Len(logged[c]) } : c \in Calls })
           \cup { saves[i].rows : i \in 1..Len(saves) })

\* faulty variant of PersistCatches: the failure of the write is let through
PersistCatchesNothing(e) == FALSE

\* except Exception: of _log_request_to_db and _save_message_and_response
PersistCatches(e) == e \in {"SQLAlchemyError", "OtherException"}

\* the tasks of the event loop that run the OCR service
OcrTasks == {1, 2, 3}

\* a task before it called _initialize_ocr_reader or extract_text_from_photo
IdleOcrTask ==
    [pc |-> "idle", via |-> "none", tried |-> FALSE, got |-> 0, compressed_path |-> FALSE,
     temp |-> FALSE, text |-> "", failure |-> "none", unlinkFailed |-> FALSE, raised |-> FALSE]

\* faulty variant of RecheckAfterLock: the reader is not tested again under the lock
RecheckAfterLockNever(reader) == FALSE

\* if _ocr_reader is not None: after async with _ocr_lock
RecheckAfterLock(reader) == reader # 0

\* how _compress_image_if_needed ends: the image needs no compression, it is
\* compressed, something raises before a compressed file exists, or something
\* raises after img.save wrote the compressed file
CompressEvents == {"small", "compressed", "raise_before_save", "raise_after_save"}

\* _compress_image_if_needed: the path it returns and whether the file
\* image_path + ".compressed.jpg" exists afterwards
CompressImage(ev) ==
    IF ev = "small" THEN [path |-> "image", created |-> FALSE]
    ELSE IF ev = "compressed" THEN [path |-> "temp", created |-> TRUE]
    ELSE IF ev = "raise_before_save" THEN [path |-> "image", created |-> FALSE]
    ELSE [path |-> "image", created |-> TRUE]

\* how the OCR of extract_text_from_photo ends
OcrEvents == {"text", "empty", "timeout", "raise"}

\* the tasks of the event loop that run _ensure_user
UserTasks == {1, 2}

\* telegram ids of the senders
TelegramIds == {1, 2}

\* user names a sender may carry ("" is None)
Usernames == {"", "ann"}

\* last value of the clock datetime.now reads
MaxClock == 2

\* a task before it called _ensure_user
IdleEnsureTask ==
    [pc |-> "idle", telegram_id |-> 0, username |-> "", found |-> 0, now |-> 0,
     err |-> "none", raised |-> FALSE]

\* the autoincremented primary key of the next users row
NextUserId(table) ==
    IF table = {} THEN 1
    ELSE (CHOOSE m \in { r.id : r \in table } : \A r \in table : r.id <= m) + 1

\* user = User(telegram_id, username, first_message_date=now, last_message_date=now)
NewUser(table, telegram_id, username, now) ==
    [id |-> NextUserId(table), telegram_id |-> telegram_id, username |-> username,
     first_message_date |-> now, last_message_date |-> now]

\* faulty variant of InsertUser: telegram_id carries no unique constraint
InsertUserNoConstraint(table, row) == [ok |-> TRUE, table |-> table \cup {row}]

\* INSERT of a users row under the unique constraint on telegram_id
InsertUser(table, row) ==
    IF \E r \in table : r.telegram_id = row.telegram_id
    THEN [ok |-> FALSE, table |-> table]
    ELSE [ok |-> TRUE, table |-> table \cup {row}]

\* user.last_message_date = now; if username and user.username != username:
\* user.username = username, written by the commit to the row that was loaded
UpdateUser(table, id, username, now) ==
    { IF r.id = id
      THEN [r EXCEPT !.last_message_date = now,
                     !.username = IF username # "" /\ r.username # username
                                  THEN username ELSE r.username]
      ELSE r : r \in table }

\* except Exception: of _ensure_user
EnsureCatches(e) == e \in {"SQLAlchemyError", "IntegrityError", "OtherException"}

Init ==
    /\ fn = [c \in Calls |-> "none"]
    /\ pc = [c \in Calls |-> "idle"]
    /\ attempt = [c \in Calls |-> 0]
    /\ requests = [c \in Calls |-> 0]
    /\ hist = [c \in Calls |-> <<>>]
    /\ slept = [c \in Calls |-> <<>>]
    /\ ret = [c \in Calls |-> "pending"]
    /\ released = [c \in Calls |-> FALSE]
    /\ body = [c \in Calls |-> NoBody]
    /\ form = [c \in Calls |-> "none"]
    /\ sentForm = [c \in Calls |-> "none"]
    /\ result = [c \in Calls |-> ""]
    /\ raised = [c \in Calls |-> FALSE]
    /\ logged = [c \in Calls |-> <<>>]
    /\ runRaised = [c \in Calls |-> FALSE]
    /\ ctype = [c \in Calls |-> ""]
    /\ apath = [c \in Calls |-> <<>>]
    /\ hkind = "none"
    /\ hpc = "idle"
    /\ sent = <<>>
    /\ saves = <<>>
    /\ tmp = {}
    /\ conv = "none"
    /\ hpath = <<>>
    /\ delFailed = FALSE
    /\ fsize = 0
    /\ ocrText = <<>>
    /\ ocr_reader = 0
    /\ ocr_lock = 0
    /\ built = 0
    /\ otask = [t \in OcrTasks |-> IdleOcrTask]
    /\ users = {}
    /\ clock = 1
    /\ etask = [t \in UserTasks |-> IdleEnsureTask]

(***************************************************************************)
(* send_to_claude is called: payload built, session opened, the retry run  *)
(* starts with attempt = 0.                                                *)
(***************************************************************************)
CallSendToClaude(c) ==
    /\ pc[c] = "idle"
    /\ fn' = [fn EXCEPT ![c] = "send_to_claude"]
    /\ pc' = [pc EXCEPT ![c] = "attempt"]
    /\ UNCHANGED <<attempt, requests, hist, slept, ret, released, body, form,
                   sentForm, result, raised, logged, runRaised, ctype, apath>>
    /\ UNCHANGED hvars
    /\ UNCHANGED evars

(***************************************************************************)
(* transcribe_audio is called: the file is read (FileNotFoundError is      *)
(* caught and gives ""), the FormData is built ONCE, the retry run starts. *)
(***************************************************************************)
CallTranscribeAudio(c, P) ==
    /\ pc[c] = "idle"
    /\ fn' = [fn EXCEPT ![c] = "transcribe_audio"]
    /\ \E exists \in BOOLEAN, audio_file_path \in P :
         /\ apath' = [apath EXCEPT ![c] = audio_file_path]
         /\ IF exists
            THEN /\ form' = [form EXCEPT ![c] = "fresh"]
                 /\ ctype' = [ctype EXCEPT ![c] = ContentType(LastSegment(audio_file_path))]
                 /\ pc' = [pc EXCEPT ![c] = "attempt"]
                 /\ UNCHANGED <<result, raised>>
            ELSE /\ pc' = [pc EXCEPT ![c] = "done"]
                 /\ IF ClientCatches("FileNotFoundError")
                    THEN result' = [result EXCEPT ![c] = ""] /\ UNCHANGED raised
                    ELSE raised' = [raised EXCEPT ![c] = TRUE] /\ UNCHANGED result
                 /\ UNCHANGED <<form, ctype>>
    /\ UNCHANGED <<attempt, requests, hist, slept, ret, released, body,
                   sentForm, logged, runRaised>>
    /\ UNCHANGED hvars
    /\ UNCHANGED evars

(***************************************************************************)
(* One iteration starts: session.request(method, url, **kwargs).  With     *)
(* json=payload the body is serialised anew; with data=data the same       *)
(* FormData object is handed over, and sending it marks it processed.      *)
(***************************************************************************)
SendRequest(c) ==
    /\ pc[c] = "attempt"
    /\ pc' = [pc EXCEPT ![c] = "inflight"]
    /\ requests' = [requests EXCEPT ![c] = @ + 1]
    /\ sentForm' = [sentForm EXCEPT ![c] =
                      IF fn[c] = "transcribe_audio" THEN form[c] ELSE "fresh"]
    /\ form' = [form EXCEPT ![c] =
                  IF fn[c] = "transcribe_audio" THEN "processed" ELSE @]
    /\ UNCHANGED <<fn, attempt, hist, slept, ret, released, body, result,
                   raised, logged, runRaised, ctype, apath>>
    /\ UNCHANGED hvars
    /\ UNCHANGED evars

(***************************************************************************)
(* The attempt ends: by a response, or by an exception raised in the try   *)
(* block.  A FormData that was already processed either raises             *)
(* RuntimeError (an OtherException) or is sent again, depending on the     *)
(* aiohttp release; both are among the outcomes drawn here.                *)
(***************************************************************************)
Respond(c, O, B) ==
    /\ pc[c] = "inflight"
    /\ \E o \in O :
         /\ ValidOutcome(o, attempt[c])
         /\ LET cls == OutcomeClass(o)
            IN  /\ hist' = [hist EXCEPT ![c] =
                              Append(@, [status |-> o.status, exc |-> o.exc, class |-> cls])]
                /\ IF cls = "retry" /\ HasAttemptsLeft(attempt[c])
                   THEN /\ slept' = [slept EXCEPT ![c] = Append(@, WaitTime(attempt[c]))]
                        /\ pc' = [pc EXCEPT ![c] = "sleep"]
                        /\ UNCHANGED <<ret, released, body, runRaised>>
                   ELSE IF cls = "propagate"
                   THEN /\ runRaised' = [runRaised EXCEPT ![c] = TRUE]
                        /\ pc' = [pc EXCEPT ![c] = "returned"]
                        /\ UNCHANGED <<ret, released, body, slept>>
                   ELSE /\ ret' = [ret EXCEPT ![c] = Returned(cls)]
                        /\ released' = [released EXCEPT ![c] = (Returned(cls) = "response")]
                        /\ pc' = [pc EXCEPT ![c] = "returned"]
                        /\ \E b \in (IF cls = "success" THEN B[fn[c]] ELSE {NoBody}) :
                             body' = [body EXCEPT ![c] = b]
                        /\ UNCHANGED <<slept, runRaised>>
    /\ UNCHANGED <<fn, attempt, requests, form, sentForm, result, raised, logged, ctype,
                   apath>>
    /\ UNCHANGED hvars
    /\ UNCHANGED evars

(***************************************************************************)
(* asyncio.sleep returns; continue: the for loop takes the next index, or  *)
(* falls out of range(MAX_RETRIES) to the final return None.               *)
(***************************************************************************)
\* faulty variant of Wake: the attempt counter is a module-level global
WakeShared(c) ==
    /\ pc[c] = "sleep"
    /\ IF LoopContinues(attempt[c] + 1)
       THEN /\ attempt' = [d \in Calls |-> attempt[c] + 1]
            /\ pc' = [pc EXCEPT ![c] = "attempt"]
            /\ UNCHANGED ret
       ELSE /\ ret' = [ret EXCEPT ![c] = "None"]
            /\ pc' = [pc EXCEPT ![c] = "returned"]
            /\ UNCHANGED attempt
    /\ UNCHANGED <<fn, requests, hist, slept, released, body, form, sentForm,
                   result, raised, logged, runRaised, ctype, apath>>
    /\ UNCHANGED hvars
    /\ UNCHANGED evars

Wake(c) ==
    /\ pc[c] = "sleep"
    /\ IF LoopContinues(attempt[c] + 1)
       THEN /\ attempt' = [attempt EXCEPT ![c] = @ + 1]
            /\ pc' = [pc EXCEPT ![c] = "attempt"]
            /\ UNCHANGED ret
       ELSE /\ ret' = [ret EXCEPT ![c] = "None"]
            /\ pc' = [pc EXCEPT ![c] = "returned"]
            /\ UNCHANGED attempt
    /\ UNCHANGED <<fn, requests, hist, slept, released, body, form, sentForm,
                   result, raised, logged, runRaised, ctype, apath>>
    /\ UNCHANGED hvars
    /\ UNCHANGED evars

\* an exception e reaches the try/except of the client function
ClientRaise(c, e) ==
    /\ IF ClientCatches(e)
       THEN result' = [result EXCEPT ![c] = ""] /\ UNCHANGED raised
       ELSE raised' = [raised EXCEPT ![c] = TRUE] /\ UNCHANGED result
    /\ UNCHANGED logged

(***************************************************************************)
(* send_to_claude after the retry run: None gives ""; otherwise            *)
(* response.json() is awaited on the response that has already left its    *)
(* request context, which either still yields the body or raises           *)
(* ClientConnectionError; then choices / content / usage are read and      *)
(* _log_request_to_db is awaited (its own failure is swallowed).           *)
(***************************************************************************)
SendToClaudeReturn(c) ==
    /\ pc[c] = "returned"
    /\ fn[c] = "send_to_claude"
    /\ pc' = [pc EXCEPT ![c] = "done"]
    /\ IF runRaised[c]
       THEN ClientRaise(c, "OtherException")
       ELSE IF ret[c] = "None"
       THEN result' = [result EXCEPT ![c] = NoResponseResult(fn[c])] /\ UNCHANGED <<raised, logged>>
       ELSE \E readOk \in BOOLEAN :
              IF ~readOk
              THEN ClientRaise(c, "ClientConnectionError")
              ELSE LET choices == GetChoices(body[c])
                       bot_response == IF choices = <<>> THEN "" ELSE GetContent(choices)
                   IN  IF bot_response = ""
                       THEN result' = [result EXCEPT ![c] = ""] /\ UNCHANGED <<raised, logged>>
                       ELSE \E failAt \in FailPoints :
                            LET committed == failAt = "none"
                            IN
                              /\ logged' = [logged EXCEPT ![c] =
                                    Append(@, [response_text |-> bot_response,
                                               tokens_used |-> GetTokens(body[c]),
                                               committed |-> committed,
                                               rows |-> PersistRows(Stored, failAt)])]
                              /\ IF committed \/ PersistCatches("SQLAlchemyError")
                                 THEN result' = [result EXCEPT ![c] = bot_response]
                                      /\ UNCHANGED raised
                                 ELSE IF ClientCatches("SQLAlchemyError")
                                 THEN result' = [result EXCEPT ![c] = ""] /\ UNCHANGED raised
                                 ELSE raised' = [raised EXCEPT ![c] = TRUE] /\ UNCHANGED result
    /\ UNCHANGED <<fn, attempt, requests, hist, slept, ret, released, body,
                   form, sentForm, runRaised, ctype, apath>>
    /\ UNCHANGED hvars
    /\ UNCHANGED evars

(***************************************************************************)
(* transcribe_audio after the retry run.                                   *)
(***************************************************************************)
TranscribeAudioReturn(c) ==
    /\ pc[c] = "returned"
    /\ fn[c] = "transcribe_audio"
    /\ pc' = [pc EXCEPT ![c] = "done"]
    /\ IF runRaised[c]
       THEN ClientRaise(c, "OtherException")
       ELSE IF ret[c] = "None"
       THEN result' = [result EXCEPT ![c] = NoResponseResult(fn[c])] /\ UNCHANGED <<raised, logged>>
       ELSE \E readOk \in BOOLEAN :
              IF ~readOk
              THEN ClientRaise(c, "ClientConnectionError")
              ELSE /\ result' = [result EXCEPT ![c] = GetText(body[c])]
                   /\ UNCHANGED <<raised, logged>>
    /\ UNCHANGED <<fn, attempt, requests, hist, slept, ret, released, body,
                   form, sentForm, runRaised, ctype, apath>>
    /\ UNCHANGED hvars
    /\ UNCHANGED evars

AllBodies == [send_to_claude |-> ClaudeBodies, transcribe_audio |-> WhisperBodies]
PairBodies == [send_to_claude |-> PairClaudeBodies, transcribe_audio |-> PairWhisperBodies]

\* one call, every status and body
Next ==
    \E c \in SoloCalls :
        \/ CallSendToClaude(c)
        \/ CallTranscribeAudio(c, Paths)
        \/ SendRequest(c)
        \/ Respond(c, Outcomes, AllBodies)
        \/ Wake(c)
        \/ SendToClaudeReturn(c)
        \/ TranscribeAudioReturn(c)

Spec == Init /\ [][Next]_vars

\* two concurrent calls, representative statuses and bodies
NextPair ==
    \E c \in Calls :
        \/ CallSendToClaude(c)
        \/ CallTranscribeAudio(c, PairPaths)
        \/ SendRequest(c)
        \/ Respond(c, PairOutcomes, PairBodies)
        \/ Wake(c)
        \/ SendToClaudeReturn(c)
        \/ TranscribeAudioReturn(c)

SpecPair == Init /\ [][NextPair]_vars

(***************************************************************************)
(* The message handlers handle_text_message, handle_photo and              *)
(* handle_audio.  One incoming message is handled; transcribe_audio runs   *)
(* as call 1 and send_to_claude as call 2.  The user-facing texts are      *)
(* rendered in English.  message.answer either delivers or raises.         *)
(***************************************************************************)
Kinds == {"text", "photo", "audio"}
TranscribeCall == 1
ClaudeCall == 2

\* faulty variant of ErrorMsg: the failure detail is put into the text
ErrorMsgWithDetail(k) == "Error: no response (None)"

\* error_msg of the three handlers
ErrorMsg(k) ==
    IF k = "text" THEN "Sorry, could not get a response. Try again later."
    ELSE "Sorry, could not get a response from AI. Try again later."

\* text of the except Exception: branch of the three handlers
GenericError(k) ==
    IF k = "text" THEN "An error occurred while processing the message."
    ELSE IF k = "photo" THEN "An error occurred while processing the photo."
    ELSE "An error occurred while processing the audio."

TooLargeMsg == "File too large. Maximum size: 20MB"
NoAudioTypeMsg == "Could not determine the type of the audio file."
OcrFailedMsg == "Could not extract text from the image."
TranscribeFailedMsg == "Could not transcribe the audio."

\* faulty variant of SavesAgain: the text handler saves a second time too
SavesAgainAlways(k) == TRUE

\* the handlers that call _save_message_and_response after the reply
SavesAgain(k) == k \in {"photo", "audio"}

\* faulty variant of StageTextPresent: the stage result is not tested
StageTextPresentAlways(text) == TRUE

\* if not extracted_text: / if not transcribed_text: of the photo and audio handlers
StageTextPresent(text) == text # ""

\* reported sizes in bytes: none, exactly 20 MB, one byte more
FileSizes == {0, 20 * 1024 * 1024, 20 * 1024 * 1024 + 1}

\* faulty variant of TooLarge: the size is not checked
TooLargeNever(file_size) == FALSE

\* if file_size and file_size > 20 * 1024 * 1024:
TooLarge(file_size) == file_size # 0 /\ file_size > 20 * 1024 * 1024

\* faulty variant of ReplyPresent: the reply is not tested
ReplyPresentAlways(response_text) == TRUE

\* if response_text: of the three handlers
ReplyPresent(response_text) == response_text # ""

\* except Exception: of a handler: one try to answer the generic text,
\* whose own failure is only logged
ExceptPath(k, s) ==
    { Append(s, [text |-> GenericError(k), delivered |-> d]) : d \in BOOLEAN }

\* faulty variant of AnswerPaths: a failed answer is not raised
AnswerPathsNoRaise(k, s, msg) ==
    { [sent |-> Append(s, [text |-> msg, delivered |-> d]), ok |-> TRUE] : d \in BOOLEAN }

\* await message.answer(msg) inside the handler's try block
AnswerPaths(k, s, msg) ==
    { [sent |-> Append(s, [text |-> msg, delivered |-> TRUE]), ok |-> TRUE] }
    \cup { [sent |-> x, ok |-> FALSE] :
             x \in ExceptPath(k, Append(s, [text |-> msg, delivered |-> FALSE])) }

(***************************************************************************)
(* Temporary files.  "orig" is the downloaded (or written) file, "mp3" the *)
(* converted one.  The finally block unlinks every file that exists; an    *)
(* unlink that raises leaves its file behind.                              *)
(***************************************************************************)
Extensions == {"ogg", "mp3"}

TempPath(ext) ==
    IF ext = "mp3" THEN <<"t", "/", "v", ".", "m", "p", "3">>
    ELSE <<"t", "/", "v", ".", "o", "g", "g">>

NeedsConversion(original_extension) == original_extension \notin {"mp3", "wav", "m4a"}

Cleanup(files) == { [tmp |-> left, failed |-> left # {}] : left \in SUBSET files }

\* the handler ends: its finally block runs on the files that exist
Finish(files) ==
    \E f \in Cleanup(files) : tmp' = f.tmp /\ delFailed' = f.failed

(***************************************************************************)
(* _convert_audio_to_mp3.  "import subprocess" stands in the else branch   *)
(* of the function, so subprocess is a local name that is bound only when  *)
(* FFMPEG_AVAILABLE is false.  When ffmpeg.run raises in the ffmpeg-python *)
(* branch, the first except clause evaluates subprocess.TimeoutExpired and *)
(* raises UnboundLocalError, which leaves the function.                    *)
(***************************************************************************)
ConvEvents == {"ok", "nonzero", "TimeoutExpired", "FileNotFoundError", "Error"}

ConvertAudio(ffmpegAvailable, ev) ==
    IF ffmpegAvailable
    THEN IF ev = "ok" THEN "True" ELSE "raise"
    ELSE IF ev = "ok" THEN "True" ELSE "False"

\* a message of type k arrives and its handler starts
HStart(k) ==
    /\ hpc = "idle"
    /\ hkind' = k
    /\ hpc' = "pre"
    /\ fsize' \in (IF k = "text" THEN {0} ELSE FileSizes)
    /\ UNCHANGED <<sent, saves, tmp, conv, hpath, delFailed, ocrText>>
    /\ UNCHANGED cvars
    /\ UNCHANGED evars

(***************************************************************************)
(* Everything before the first service call: _ensure_user (never raises),  *)
(* send_chat_action, and for photo / audio the size check, get_file, the   *)
(* temporary file, the download and the conversion.  Any await may raise.  *)
(***************************************************************************)
HPre ==
    /\ hpc = "pre"
    /\ hkind \in Kinds
    /\ \E ev \in {"ok", "raise", "no_type", "download_raise", "typing_raise"},
          original_extension \in Extensions, ffmpegAvailable \in BOOLEAN, cev \in ConvEvents :
         LET converting == hkind = "audio" /\ NeedsConversion(original_extension) /\ ffmpegAvailable
             converted == IF converting THEN ConvertAudio(ffmpegAvailable, cev) ELSE "none"
             files == IF hkind = "text" THEN {}
                      ELSE IF converting THEN {"orig", "mp3"} ELSE {"orig"}
         IN  /\ ev = "no_type" => hkind = "audio" /\ fsize = 0
             /\ ev = "download_raise" => hkind \in {"photo", "audio"}
             /\ ev = "typing_raise" => hkind = "audio"
             /\ IF ev = "raise"
                THEN /\ sent' \in ExceptPath(hkind, sent)
                     /\ hpc' = "done"
                     /\ Finish({})
                     /\ UNCHANGED <<conv, hpath>>
                ELSE IF ev = "no_type" \/ TooLarge(fsize)
                THEN /\ \E r \in AnswerPaths(hkind, sent,
                                             IF ev = "no_type" THEN NoAudioTypeMsg ELSE TooLargeMsg) :
                           sent' = r.sent
                     /\ hpc' = "done"
                     /\ Finish({})
                     /\ UNCHANGED <<conv, hpath>>
                ELSE IF ev = "download_raise"
                THEN /\ sent' \in ExceptPath(hkind, sent)
                     /\ hpc' = "done"
                     /\ Finish({"orig"})
                     /\ UNCHANGED <<conv, hpath>>
                ELSE IF converted = "raise"
                THEN /\ conv' = "raised"
                     /\ sent' \in ExceptPath(hkind, sent)
                     /\ hpc' = "done"
                     /\ Finish(files)
                     /\ UNCHANGED hpath
                ELSE IF ev = "typing_raise"
                THEN /\ conv' = converted
                     /\ sent' \in ExceptPath(hkind, sent)
                     /\ hpc' = "done"
                     /\ Finish(files)
                     /\ UNCHANGED hpath
                ELSE /\ conv' = converted
                     /\ tmp' = files
                     /\ hpath' = (IF hkind # "audio" THEN <<>>
                                  ELSE IF converted = "True" THEN TempPath("mp3")
                                  ELSE TempPath(original_extension))
                     /\ hpc' = (IF hkind = "text" THEN "ask"
                                ELSE IF hkind = "photo" THEN "ocr" ELSE "transcribe")
                     /\ UNCHANGED <<sent, delFailed>>
    /\ UNCHANGED <<hkind, saves, fsize, ocrText>>
    /\ UNCHANGED cvars
    /\ UNCHANGED evars

\* handle_photo: extract_text_from_photo, then the typing indicator
HOcr ==
    /\ hpc = "ocr"
    /\ \E extracted_text \in Contents, chatActionOk \in BOOLEAN :
         /\ ocrText' = <<extracted_text>>
         /\ IF ~StageTextPresent(extracted_text)
            THEN /\ \E r \in AnswerPaths(hkind, sent, OcrFailedMsg) : sent' = r.sent
                 /\ hpc' = "done"
                 /\ Finish(tmp)
            ELSE IF chatActionOk
            THEN hpc' = "ask" /\ UNCHANGED <<sent, tmp, delFailed>>
            ELSE sent' \in ExceptPath(hkind, sent) /\ hpc' = "done" /\ Finish(tmp)
    /\ UNCHANGED <<hkind, saves, conv, hpath, fsize>>
    /\ UNCHANGED cvars
    /\ UNCHANGED evars

\* handle_audio / transcribe_audio_from_bytes: await transcribe_audio(path)
HTranscribe ==
    /\ hpc = "transcribe"
    /\ CallTranscribeAudio(TranscribeCall, {hpath})

\* handle_audio: transcribe_audio has returned
HTranscribed ==
    /\ hpc = "transcribe"
    /\ hkind = "audio"
    /\ pc[TranscribeCall] = "done"
    /\ \E chatActionOk \in BOOLEAN :
         IF raised[TranscribeCall]
         THEN sent' \in ExceptPath(hkind, sent) /\ hpc' = "done" /\ Finish(tmp)
         ELSE IF ~StageTextPresent(result[TranscribeCall])
         THEN /\ \E r \in AnswerPaths(hkind, sent, TranscribeFailedMsg) : sent' = r.sent
              /\ hpc' = "done"
              /\ Finish(tmp)
         ELSE IF chatActionOk
         THEN hpc' = "ask" /\ UNCHANGED <<sent, tmp, delFailed>>
         ELSE sent' \in ExceptPath(hkind, sent) /\ hpc' = "done" /\ Finish(tmp)
    /\ UNCHANGED <<hkind, saves, conv, hpath, fsize, ocrText>>
    /\ UNCHANGED cvars
    /\ UNCHANGED evars

\* await send_to_claude(text, user_id)
HAsk ==
    /\ hpc = "ask"
    /\ CallSendToClaude(ClaudeCall)

(***************************************************************************)
(* send_to_claude has returned: a non-empty reply is answered and, in the  *)
(* photo and audio handlers, saved once more with its own message type;    *)
(* an empty one is answered with error_msg.  Then the finally block.       *)
(***************************************************************************)
HReply ==
    /\ hpc = "ask"
    /\ pc[ClaudeCall] = "done"
    /\ hpc' = "done"
    /\ LET response_text == result[ClaudeCall]
       IN  IF raised[ClaudeCall]
           THEN sent' \in ExceptPath(hkind, sent) /\ UNCHANGED saves
           ELSE IF ReplyPresent(response_text)
           THEN \E r \in AnswerPaths(hkind, sent, response_text) :
                  IF r.ok /\ SavesAgain(hkind)
                  THEN \E failAt \in FailPoints :
                         LET committed == failAt = "none"
                         IN  /\ saves' = Append(saves, [message_type |-> hkind,
                                                        response_text |-> response_text,
                                                        committed |-> committed,
                                                        rows |-> PersistRows(Stored, failAt)])
                             /\ IF committed \/ PersistCatches("SQLAlchemyError")
                                THEN sent' = r.sent
                                ELSE sent' \in ExceptPath(hkind, r.sent)
                  ELSE sent' = r.sent /\ UNCHANGED saves
           ELSE /\ \E r \in AnswerPaths(hkind, sent, ErrorMsg(hkind)) : sent' = r.sent
                /\ UNCHANGED saves
    /\ Finish(tmp)
    /\ UNCHANGED <<hkind, conv, hpath, fsize, ocrText>>
    /\ UNCHANGED cvars
    /\ UNCHANGED evars

(***************************************************************************)
(* APIService.transcribe_audio_from_bytes: the bytes are written to a      *)
(* temporary file inside the with block, BEFORE the try / finally that     *)
(* unlinks it; then transcribe_audio runs on the file.                     *)
(***************************************************************************)
BStart ==
    /\ hpc = "idle"
    /\ hkind' = "bytes"
    /\ hpc' = "pre"
    /\ UNCHANGED <<sent, saves, tmp, conv, hpath, delFailed, fsize, ocrText>>
    /\ UNCHANGED cvars
    /\ UNCHANGED evars

BWrite ==
    /\ hpc = "pre"
    /\ hkind = "bytes"
    /\ \E ev \in {"ok", "create_raise", "write_raise"}, ext \in Extensions :
         IF ev = "ok"
         THEN /\ tmp' = {"orig"}
              /\ hpath' = TempPath(ext)
              /\ hpc' = "transcribe"
         ELSE /\ tmp' = (IF ev = "write_raise" THEN {"orig"} ELSE {})
              /\ hpc' = "done"
              /\ UNCHANGED hpath
    /\ UNCHANGED <<hkind, sent, saves, conv, delFailed, fsize, ocrText>>
    /\ UNCHANGED cvars
    /\ UNCHANGED evars

BTranscribed ==
    /\ hpc = "transcribe"
    /\ hkind = "bytes"
    /\ pc[TranscribeCall] = "done"
    /\ hpc' = "done"
    /\ Finish(tmp)
    /\ UNCHANGED <<hkind, sent, saves, conv, hpath, fsize, ocrText>>
    /\ UNCHANGED cvars
    /\ UNCHANGED evars

\* one incoming message of any type, handled to the end
NextHandler ==
    \/ \E k \in Kinds : HStart(k)
    \/ HPre
    \/ HOcr
    \/ HTranscribe
    \/ HTranscribed
    \/ HAsk
    \/ HReply
    \/ BStart
    \/ BWrite
    \/ BTranscribed
    \/ \E c \in Calls :
         \/ SendRequest(c)
         \/ Respond(c, PairOutcomes, PairBodies)
         \/ Wake(c)
         \/ SendToClaudeReturn(c)
         \/ TranscribeAudioReturn(c)

SpecHandler == Init /\ [][NextHandler]_vars

(***************************************************************************)
(* Cancellation of the task that runs a call.  The coroutine is suspended  *)
(* at an await (session.request / response.text in flight, asyncio.sleep); *)
(* asyncio throws CancelledError there.  CancelledError is a BaseException, *)
(* so neither the except clauses of _make_request_with_retry nor the       *)
(* except Exception of the client function catch it.                       *)
(***************************************************************************)
\* faulty variant of Cancel: the attempt in flight is first run to its timeout
CancelAfterAttempt(c) ==
    /\ pc[c] \in {"inflight", "sleep"}
    /\ pc' = [pc EXCEPT ![c] = "cancelled"]
    /\ raised' = [raised EXCEPT ![c] = TRUE]
    /\ hist' = [hist EXCEPT ![c] =
                  IF pc[c] = "inflight"
                  THEN Append(@, [status |-> 0, exc |-> "TimeoutError", class |-> "retry"])
                  ELSE @]
    /\ UNCHANGED <<fn, attempt, requests, slept, ret, released, body, form,
                   sentForm, result, logged, runRaised, ctype, apath>>
    /\ UNCHANGED hvars
    /\ UNCHANGED evars

Cancel(c) ==
    /\ pc[c] \in {"inflight", "sleep"}
    /\ pc' = [pc EXCEPT ![c] = "cancelled"]
    /\ raised' = [raised EXCEPT ![c] = TRUE]
    /\ UNCHANGED <<fn, attempt, requests, hist, slept, ret, released, body, form,
                   sentForm, result, logged, runRaised, ctype, apath>>
    /\ UNCHANGED hvars
    /\ UNCHANGED evars

\* one call that may be cancelled
NextCancel ==
    \E c \in SoloCalls :
        \/ CallSendToClaude(c)
        \/ CallTranscribeAudio(c, PairPaths)
        \/ SendRequest(c)
        \/ Respond(c, PairOutcomes, PairBodies)
        \/ Wake(c)
        \/ SendToClaudeReturn(c)
        \/ TranscribeAudioReturn(c)
        \/ Cancel(c)

SpecCancel == Init /\ [][NextCancel]_vars

\* one call under the assumption that every attempt and every sleep ends
\* and that the coroutine is scheduled
SpecLive ==
    /\ Init
    /\ [][Next]_vars
    /\ \A c \in SoloCalls :
         /\ WF_vars(SendRequest(c))
         /\ WF_vars(Respond(c, Outcomes, AllBodies))
         /\ WF_vars(Wake(c))

(***************************************************************************)
(* ocr_service: _initialize_ocr_reader and extract_text_from_photo, run by  *)
(* tasks of one event loop; a step is the code between two awaits.          *)
(***************************************************************************)

\* the finally block of extract_text_from_photo: the compressed file is
\* unlinked when compressed_path is set and the file exists
Unlink(t, delOk) ==
    IF t.compressed_path /\ t.temp
    THEN [t EXCEPT !.temp = ~delOk, !.unlinkFailed = ~delOk]
    ELSE t

\* a task calls _initialize_ocr_reader (main at startup) or
\* extract_text_from_photo (handle_photo); a missing file ends the latter
OStart(t) ==
    /\ otask[t].pc = "idle"
    /\ \E via \in {"init", "extract"}, exists \in BOOLEAN :
         /\ via = "init" => exists
         /\ otask' = [otask EXCEPT ![t] =
                IF ~exists
                THEN [@ EXCEPT !.pc = "done", !.via = via, !.failure = "missing"]
                ELSE [@ EXCEPT !.pc = "check", !.via = via]]
    /\ UNCHANGED <<ocr_reader, ocr_lock, built>>
    /\ UNCHANGED uvars
    /\ UNCHANGED cvars
    /\ UNCHANGED hvars

\* if _ocr_reader is not None: return _ocr_reader, else wait for the lock
OCheck(t) ==
    /\ otask[t].pc = "check"
    /\ otask' = [otask EXCEPT ![t] =
           IF ocr_reader # 0
           THEN [@ EXCEPT !.pc = "inited", !.got = ocr_reader]
           ELSE [@ EXCEPT !.pc = "lock"]]
    /\ UNCHANGED <<ocr_reader, ocr_lock, built>>
    /\ UNCHANGED uvars
    /\ UNCHANGED cvars
    /\ UNCHANGED hvars

\* async with _ocr_lock: the lock is acquired, the reader is tested again and
\* the construction is handed to the executor
OAcquire(t) ==
    /\ otask[t].pc = "lock"
    /\ ocr_lock = 0
    /\ IF RecheckAfterLock(ocr_reader)
       THEN /\ otask' = [otask EXCEPT ![t] = [@ EXCEPT !.pc = "inited", !.got = ocr_reader]]
            /\ UNCHANGED ocr_lock
       ELSE /\ otask' = [otask EXCEPT ![t] = [@ EXCEPT !.pc = "build", !.tried = TRUE]]
            /\ ocr_lock' = t
    /\ UNCHANGED <<ocr_reader, built>>
    /\ UNCHANGED uvars
    /\ UNCHANGED cvars
    /\ UNCHANGED hvars

\* the executor finished easyocr.Reader(...): the reader is stored and
\* returned, or the exception is caught and None is returned; the lock is released
OBuild(t) ==
    /\ otask[t].pc = "build"
    /\ ocr_lock = t
    /\ \E ok \in BOOLEAN :
         IF ok
         THEN /\ built' = built + 1
              /\ ocr_reader' = built + 1
              /\ otask' = [otask EXCEPT ![t] = [@ EXCEPT !.pc = "inited", !.got = built + 1]]
         ELSE /\ otask' = [otask EXCEPT ![t] = [@ EXCEPT !.pc = "inited", !.got = 0]]
              /\ UNCHANGED <<ocr_reader, built>>
    /\ ocr_lock' = 0
    /\ UNCHANGED uvars
    /\ UNCHANGED cvars
    /\ UNCHANGED hvars

\* _initialize_ocr_reader returned: main goes on; extract_text_from_photo
\* returns "" without a reader, else compresses the image and starts the OCR
OInited(t) ==
    /\ otask[t].pc = "inited"
    /\ IF otask[t].via = "init"
       THEN otask' = [otask EXCEPT ![t] = [@ EXCEPT !.pc = "done"]]
       ELSE IF otask[t].got = 0
       THEN otask' = [otask EXCEPT ![t] = [@ EXCEPT !.pc = "done", !.failure = "no_reader"]]
       ELSE \E ev \in CompressEvents :
              LET processed == CompressImage(ev)
              IN  otask' = [otask EXCEPT ![t] =
                      [@ EXCEPT !.pc = "ocr",
                                !.compressed_path = processed.path # "image",
                                !.temp = processed.created]]
    /\ UNCHANGED <<ocr_reader, ocr_lock, built>>
    /\ UNCHANGED uvars
    /\ UNCHANGED cvars
    /\ UNCHANGED hvars

\* reader.readtext under wait_for ended; the text is joined and returned, and
\* the finally block removes the compressed file
OOcr(t) ==
    /\ otask[t].pc = "ocr"
    /\ \E ev \in OcrEvents, full_text \in Contents, delOk \in BOOLEAN :
         /\ ev # "text" => full_text = ""
         /\ otask' = [otask EXCEPT ![t] =
                Unlink([@ EXCEPT !.pc = "done",
                                 !.text = full_text,
                                 !.failure = IF ev = "text" THEN "none" ELSE ev], delOk)]
    /\ UNCHANGED <<ocr_reader, ocr_lock, built>>
    /\ UNCHANGED uvars
    /\ UNCHANGED cvars
    /\ UNCHANGED hvars

NextOcr ==
    \/ \E t \in OcrTasks : OStart(t)
    \/ \E t \in OcrTasks : OCheck(t)
    \/ \E t \in OcrTasks : OAcquire(t)
    \/ \E t \in OcrTasks : OBuild(t)
    \/ \E t \in OcrTasks : OInited(t)
    \/ \E t \in OcrTasks : OOcr(t)

SpecOcr == Init /\ [][NextOcr]_vars

(***************************************************************************)
(* message_handler: _ensure_user, run by the handlers of concurrently       *)
(* handled messages against the users table.                                *)
(***************************************************************************)

\* time passes
Tick ==
    /\ clock < MaxClock
    /\ clock' = clock + 1
    /\ UNCHANGED <<users, etask>>
    /\ UNCHANGED ovars
    /\ UNCHANGED cvars
    /\ UNCHANGED hvars

\* a handler calls _ensure_user(telegram_id, username): the session is
\* opened and the SELECT is sent, or opening the session raises
EStart(t) ==
    /\ etask[t].pc = "idle"
    /\ \E telegram_id \in TelegramIds, username \in Usernames, ok \in BOOLEAN :
         etask' = [etask EXCEPT ![t] =
             IF ok
             THEN [@ EXCEPT !.pc = "select", !.telegram_id = telegram_id, !.username = username]
             ELSE [@ EXCEPT !.pc = "done", !.telegram_id = telegram_id, !.username = username,
                            !.err = "OtherException",
                            !.raised = ~EnsureCatches("OtherException")]]
    /\ UNCHANGED <<users, clock>>
    /\ UNCHANGED ovars
    /\ UNCHANGED cvars
    /\ UNCHANGED hvars

\* the SELECT returned: scalar_one_or_none gives the row or None (or raises),
\* now is read, and the new row is added or the loaded one is modified
ESelect(t) ==
    /\ etask[t].pc = "select"
    /\ \E ok \in BOOLEAN :
         LET rows == { r \in users : r.telegram_id = etask[t].telegram_id }
         IN  etask' = [etask EXCEPT ![t] =
                 IF ~ok \/ Cardinality(rows) > 1
                 THEN [@ EXCEPT !.pc = "done", !.err = "SQLAlchemyError",
                                !.raised = ~EnsureCatches("SQLAlchemyError")]
                 ELSE [@ EXCEPT !.pc = "commit", !.now = clock,
                                !.found = IF rows = {} THEN 0
                                          ELSE (CHOOSE r \in rows : TRUE).id]]
    /\ UNCHANGED <<users, clock>>
    /\ UNCHANGED ovars
    /\ UNCHANGED cvars
    /\ UNCHANGED hvars

\* await session.commit(): the INSERT or the UPDATE is written, or the commit
\* raises (the unique constraint among the causes) and nothing is written
ECommit(t) ==
    /\ etask[t].pc = "commit"
    /\ \E ok \in BOOLEAN :
         LET me == etask[t]
             ins == InsertUser(users, NewUser(users, me.telegram_id, me.username, me.now))
             e == IF ~ok THEN "SQLAlchemyError"
                  ELSE IF me.found = 0 /\ ~ins.ok THEN "IntegrityError"
                  ELSE "none"
         IN  /\ users' = (IF e # "none" THEN users
                          ELSE IF me.found = 0 THEN ins.table
                          ELSE UpdateUser(users, me.found, me.username, me.now))
             /\ etask' = [etask EXCEPT ![t] =
                    [@ EXCEPT !.pc = "done", !.err = e,
                              !.raised = e # "none" /\ ~EnsureCatches(e)]]
    /\ UNCHANGED clock
    /\ UNCHANGED ovars
    /\ UNCHANGED cvars
    /\ UNCHANGED hvars

\* the handler went on and a later message starts another handler on the task
EReturn(t) ==
    /\ etask[t].pc = "done"
    /\ ~etask[t].raised
    /\ etask' = [etask EXCEPT ![t] = IdleEnsureTask]
    /\ UNCHANGED <<users, clock>>
    /\ UNCHANGED ovars
    /\ UNCHANGED cvars
    /\ UNCHANGED hvars

NextUsers ==
    \/ Tick
    \/ \E t \in UserTasks : EStart(t)
    \/ \E t \in UserTasks : ESelect(t)
    \/ \E t \in UserTasks : ECommit(t)
    \/ \E t \in UserTasks : EReturn(t)

SpecUsers == Init /\ [][NextUsers]_vars

TypeOK ==
    /\ fn \in [Calls -> {"none", "send_to_claude", "transcribe_audio"}]
    /\ pc \in [Calls -> {"idle", "attempt", "inflight", "sleep", "returned", "done",
                         "cancelled"}]
    /\ ret \in [Calls -> {"pending", "response", "None"}]
    /\ form \in [Calls -> {"none", "fresh", "processed"}]
    /\ raised \in [Calls -> BOOLEAN]
    /\ hkind \in Kinds \cup {"none", "bytes"}
    /\ hpc \in {"idle", "pre", "ocr", "transcribe", "ask", "done"}
    /\ tmp \subseteq {"orig", "mp3"}
    /\ conv \in {"none", "True", "False", "raised"}
    /\ delFailed \in BOOLEAN
    /\ fsize \in FileSizes
    /\ ocrText \in {<<>>} \cup { <<text>> : text \in Contents }
    /\ ocr_reader \in 0..built
    /\ ocr_lock \in OcrTasks \cup {0}
    /\ built \in Nat
    /\ \A t \in OcrTasks : otask[t].pc \in {"idle", "check", "lock", "build", "inited", "ocr", "done"}
    /\ clock \in 1..MaxClock
    /\ \A t \in UserTasks : etask[t].pc \in {"idle", "select", "commit", "done"}
    /\ \A r \in users : r.telegram_id \in TelegramIds

(***************************************************************************)
(* Vocabulary of the claims, stated on the recorded attempts independently *)
(* of the branch the code took.                                            *)
(***************************************************************************)
Finished(c) == ret[c] # "pending"

IsSuccess(o) == o.exc = "none" /\ o.status = 200

IsRetryable(o) ==
    \/ o.exc \in {"TimeoutError", "ClientError"}
    \/ o.exc = "none" /\ (o.status = 429 \/ o.status >= 500)

IsFatal(o) == o.exc = "none" /\ o.status # 200 /\ o.status # 429 /\ o.status < 500

Exhausted(c) ==
    /\ Finished(c)
    /\ Len(hist[c]) = 3
    /\ \A i \in 1..Len(hist[c]) : IsRetryable(hist[c][i])

FatalEnded(c) ==
    /\ Finished(c)
    /\ Len(hist[c]) > 0
    /\ IsFatal(hist[c][Len(hist[c])])

C2_AllRetryableRun ==
    \A c \in Calls :
        (/\ Finished(c)
         /\ Len(hist[c]) > 0
         /\ \A i \in 1..Len(hist[c]) : IsRetryable(hist[c][i]))
        => /\ requests[c] = 3
           /\ Len(hist[c]) = 3
           /\ slept[c] = <<1, 2>>
           /\ ret[c] = "None"

C2_Witness ==
    \E c \in Calls :
        /\ pc[c] = "done"
        /\ Len(hist[c]) = 3
        /\ hist[c][1].exc = "none" /\ hist[c][1].status = 429
        /\ hist[c][2].exc = "TimeoutError"
        /\ hist[c][3].exc = "none" /\ hist[c][3].status = 503
        /\ slept[c] = <<1, 2>>
        /\ result[c] = ""

C4_AttemptIndexBounded ==
    \A c \in Calls :
        /\ attempt[c] \in 0..2
        /\ requests[c] <= 3
        /\ requests[c] \in {attempt[c], attempt[c] + 1}
        /\ pc[c] = "attempt" => requests[c] = attempt[c]
        /\ pc[c] \in {"inflight", "sleep"} => requests[c] = attempt[c] + 1
        /\ Len(hist[c]) <= requests[c]

C4_Witness ==
    \E c \in Calls : pc[c] = "inflight" /\ attempt[c] = 2 /\ requests[c] = 3

\* C5: the i-th sleep of a run follows a retryable failure at index i-1 < 2
\* and lasts RETRY_DELAY * 2^(i-1); every retryable failure with attempts
\* left is followed by that sleep before the next request; there is no
\* other sleep.
C5_BackoffSchedule ==
    \A c \in Calls :
        /\ \A i \in 1..Len(slept[c]) :
              /\ i <= Len(hist[c])
              /\ IsRetryable(hist[c][i])
              /\ i - 1 < 2
              /\ slept[c][i] = 1 * (2 ^ (i - 1))
        /\ \A i \in 1..Len(hist[c]) :
              (IsRetryable(hist[c][i]) /\ i - 1 < 2) => Len(slept[c]) >= i
        /\ requests[c] <= Len(slept[c]) + 1
        /\ pc[c] = "sleep" =>
              Len(slept[c]) = attempt[c] + 1 /\ Len(hist[c]) = attempt[c] + 1

C5_Witness ==
    \E c \in Calls :
        /\ pc[c] = "inflight"
        /\ attempt[c] = 2
        /\ hist[c][1].exc = "ClientError"
        /\ hist[c][2].exc = "none" /\ hist[c][2].status = 502
        /\ slept[c] = <<1, 2>>

\* C6 as stated: the value returned after exhaustion differs from the
\* value returned after a fatal failure (the caller can tell them apart).
C6_ExhaustedDistinctFromFatal ==
    \A c, d \in Calls : (Exhausted(c) /\ FatalEnded(d)) => ret[c] # ret[d]

\* C6 amended: after exhaustion the run returns None, never a response,
\* and that is the very value a fatal failure returns.
C6_ExhaustedReturnsNone ==
    \A c \in Calls :
        Exhausted(c) =>
            /\ ret[c] = "None"
            /\ \A d \in Calls : FatalEnded(d) => ret[d] = ret[c]

C6_Witness ==
    \E c, d \in Calls : c # d /\ Exhausted(c) /\ FatalEnded(d)

\* C7: every attempt gets a freshly built request body; no attempt is
\* handed a multipart form that an earlier attempt has already processed.
C7_FreshBodyPerAttempt ==
    \A c \in Calls : pc[c] = "inflight" => sentForm[c] = "fresh"

\* C8: a success whose body has choices[0].message.content = s (non-empty)
\* and usage.total_tokens = t makes send_to_claude return s and pass t on
\* as the token count.
C8_ReplyAndTokens ==
    \A c \in Calls :
        (/\ fn[c] = "send_to_claude"
         /\ pc[c] = "done"
         /\ ret[c] = "response"
         /\ body[c].choices # <<>>
         /\ Len(body[c].choices[1]) > 0
         /\ body[c].choices[1][1].message # <<>>
         /\ body[c].choices[1][1].message[1].content \notin {<<>>, <<"">>}
         /\ body[c].usage # <<>>
         /\ body[c].usage[1].total_tokens # <<>>)
        => /\ result[c] = body[c].choices[1][1].message[1].content[1]
           /\ Len(logged[c]) = 1
           /\ logged[c][1].tokens_used = body[c].usage[1].total_tokens

\* C9: a success whose body has no or empty choices, or no or empty
\* content, makes send_to_claude return "" without raising.
C9_EmptyResponseSoft ==
    \A c \in Calls :
        (/\ fn[c] = "send_to_claude"
         /\ pc[c] = "done"
         /\ ret[c] = "response"
         /\ \/ body[c].choices = <<>>
            \/ body[c].choices[1] = <<>>
            \/ body[c].choices[1][1].message = <<>>
            \/ body[c].choices[1][1].message[1].content \in {<<>>, <<"">>})
        => result[c] = "" /\ ~raised[c] /\ logged[c] = <<>>

C9_Witness ==
    \E c \in Calls :
        /\ fn[c] = "send_to_claude"
        /\ pc[c] = "done"
        /\ ret[c] = "response"
        /\ body[c].choices # <<>>
        /\ Len(body[c].choices[1]) = 1
        /\ body[c].choices[1][1].message = <<[content |-> <<>>]>>
        /\ result[c] = ""

\* C10: a run without any success (fatal failure, or retryable failures
\* until exhaustion) makes send_to_claude and transcribe_audio return ""
\* and neither raises.
C10_NoSuccessGivesEmpty ==
    \A c \in Calls :
        (/\ pc[c] = "done"
         /\ Len(hist[c]) > 0
         /\ \A i \in 1..Len(hist[c]) : ~IsSuccess(hist[c][i]))
        => result[c] = "" /\ ~raised[c]

C10_Witness ==
    \E c \in Calls :
        /\ fn[c] = "transcribe_audio"
        /\ pc[c] = "done"
        /\ Exhausted(c)
        /\ result[c] = ""
        /\ ~raised[c]

\* C11: _make_request_with_retry lets no exception out: after a timeout, a
\* client error or any other exception in an attempt the run either goes
\* on or has returned a response or None.
C11_RetryNeverRaises ==
    \A c \in Calls :
        /\ ~runRaised[c]
        /\ (pc[c] \in {"returned", "done"} /\ Len(hist[c]) > 0) =>
              ret[c] \in {"response", "None"}

C11_Witness ==
    \E c \in Calls :
        /\ pc[c] = "returned"
        /\ Len(hist[c]) = 2
        /\ hist[c][1].exc = "TimeoutError"
        /\ hist[c][2].exc = "OtherException"
        /\ ret[c] = "None"

\* C12: an attempt that times out or fails with a client error counts as
\* one attempt and is retryable: with attempts left the backoff sleep is
\* started and the run cannot end before one more attempt is made; on the
\* last attempt the run returns None.
C12_TimeoutAndConnectionRetryable ==
    \A c \in Calls : \A i \in 1..Len(hist[c]) :
        hist[c][i].exc \in {"TimeoutError", "ClientError"} =>
            /\ requests[c] >= i
            /\ IF i < 3
               THEN /\ Len(slept[c]) >= i
                    /\ slept[c][i] = 2 ^ (i - 1)
                    /\ i = Len(hist[c]) =>
                          /\ ret[c] = "pending"
                          /\ pc[c] \in {"sleep", "attempt", "inflight"}
                          /\ attempt[c] = (IF pc[c] = "sleep" THEN i - 1 ELSE i)
                    /\ Finished(c) => Len(hist[c]) > i
               ELSE ret[c] = "None" /\ Len(slept[c]) = 2

C12_Witness ==
    \E c \in Calls :
        /\ Len(hist[c]) = 3
        /\ hist[c][1].exc = "TimeoutError" /\ hist[c][1].status = 0
        /\ hist[c][2].exc = "ClientError" /\ hist[c][2].status = 0
        /\ hist[c][3].exc = "TimeoutError"
        /\ requests[c] = 3
        /\ ret[c] = "None"

\* vocabulary of the handler claims
GotReply ==
    /\ pc[ClaudeCall] = "done"
    /\ ~raised[ClaudeCall]
    /\ result[ClaudeCall] # ""

NoReply ==
    /\ pc[ClaudeCall] = "done"
    /\ ~raised[ClaudeCall]
    /\ result[ClaudeCall] = ""

PersistFailed ==
    \/ \E i \in 1..Len(logged[ClaudeCall]) : ~logged[ClaudeCall][i].committed
    \/ \E i \in 1..Len(saves) : ~saves[i].committed

\* C13 as stated: persistence is called once for every message (text,
\* photo or audio) that obtained a non-empty reply.
C13_PersistCalledOnce ==
    (hpc = "done" /\ GotReply) => Len(logged[ClaudeCall]) + Len(saves) = 1

\* C13 amended: send_to_claude calls persistence exactly once for a
\* non-empty reply; the photo and audio handlers call it once more, with
\* their own message type, after the reply was delivered; the text handler
\* does not.
C13_PersistCallsPerKind ==
    (hpc = "done" /\ GotReply) =>
        /\ Len(logged[ClaudeCall]) = 1
        /\ logged[ClaudeCall][1].response_text = result[ClaudeCall]
        /\ Len(sent) >= 1
        /\ Len(saves) = (IF hkind \in {"photo", "audio"} /\ sent[1].delivered THEN 1 ELSE 0)
        /\ \A i \in 1..Len(saves) :
              saves[i].message_type = hkind /\ saves[i].response_text = result[ClaudeCall]

C13_Witness ==
    /\ hpc = "done"
    /\ hkind = "audio"
    /\ GotReply
    /\ Len(logged[ClaudeCall]) = 1 /\ logged[ClaudeCall][1].committed
    /\ Len(saves) = 1 /\ saves[1].committed

\* C14: a failed write changes nothing: send_to_claude returns the reply it
\* computed, and the handler answers that reply and sends no error message
\* after a delivered reply.
C14_PersistFailureHarmless ==
    /\ \A c \in Calls :
          (pc[c] = "done" /\ logged[c] # <<>>) =>
              /\ result[c] = logged[c][1].response_text
              /\ result[c] # ""
              /\ ~raised[c]
    /\ (hpc = "done" /\ PersistFailed) =>
          /\ Len(sent) >= 1
          /\ sent[1].text = result[ClaudeCall]
          /\ sent[1].delivered => Len(sent) = 1

C14_Witness ==
    /\ hpc = "done"
    /\ hkind = "photo"
    /\ Len(logged[ClaudeCall]) = 1 /\ ~logged[ClaudeCall][1].committed
    /\ Len(saves) = 1 /\ ~saves[1].committed
    /\ sent = <<[text |-> "hi", delivered |-> TRUE]>>

C15Text(k) ==
    IF k = "text" THEN "Sorry, could not get a response. Try again later."
    ELSE "Sorry, could not get a response from AI. Try again later."

C15Fixed ==
    { C15Text(k) : k \in Kinds } \cup
    { "An error occurred while processing the message.",
      "An error occurred while processing the photo.",
      "An error occurred while processing the audio." }

\* C15 as stated: when send_to_claude returns "" the handler sends exactly
\* one message, the fixed "could not get a response" text.
C15_OneFixedMessage ==
    (hpc = "done" /\ NoReply) => Len(sent) = 1 /\ sent[1].text = C15Text(hkind)

\* C15 amended: when send_to_claude returns "" the handler answers the
\* fixed "could not get a response" text; if that answer is delivered it is
\* the only message; if the answer call raises, the handler tries once more
\* with its fixed "an error occurred" text; at most one message is
\* delivered and every text is one of these fixed strings.
C15_FixedMessageOrFallback ==
    (hpc = "done" /\ NoReply) =>
        /\ Len(sent) \in {1, 2}
        /\ sent[1].text = C15Text(hkind)
        /\ Len(sent) = 1 <=> sent[1].delivered
        /\ \A i \in 1..Len(sent) : sent[i].text \in C15Fixed
        /\ Cardinality({ i \in 1..Len(sent) : sent[i].delivered }) <= 1

C15_Witness ==
    /\ hpc = "done"
    /\ hkind = "audio"
    /\ NoReply
    /\ Exhausted(ClaudeCall)
    /\ sent = <<[text |-> C15Text("audio"), delivered |-> TRUE]>>

C16Suffix(name) ==
    IF Len(name) >= 4 THEN SubSeq(name, Len(name) - 3, Len(name)) ELSE <<>>

\* C16: the content type follows the suffix of the file name: .ogg and
\* .oga give audio/ogg, .wav audio/wav, .m4a audio/m4a, anything else
\* audio/mpeg.
C16_ContentTypeBySuffix ==
    \A c \in Calls :
        (fn[c] = "transcribe_audio" /\ pc[c] \notin {"idle"} /\ form[c] # "none") =>
            LET suffix == C16Suffix(LastSegment(apath[c]))
            IN  ctype[c] =
                  CASE suffix \in {<<".", "o", "g", "g">>, <<".", "o", "g", "a">>} -> "audio/ogg"
                    [] suffix = <<".", "w", "a", "v">> -> "audio/wav"
                    [] suffix = <<".", "m", "4", "a">> -> "audio/m4a"
                    [] OTHER -> "audio/mpeg"

C16_Witness ==
    \E c \in Calls :
        /\ fn[c] = "transcribe_audio"
        /\ pc[c] = "inflight"
        /\ apath[c] = <<"v", ".", "o", "g", "a">>
        /\ ctype[c] = "audio/ogg"

\* C17: on a success transcribe_audio returns the text field of the body,
\* "" when the field is absent or empty; a missing file gives ""; nothing
\* is raised.
C17_TranscribeReturnsText ==
    \A c \in Calls :
        (fn[c] = "transcribe_audio" /\ pc[c] = "done") =>
            /\ ~raised[c]
            /\ ret[c] = "response" =>
                  result[c] = (IF body[c].text = <<>> THEN "" ELSE body[c].text[1])
            /\ form[c] = "none" => result[c] = ""

CallState(c) ==
    <<fn[c], pc[c], attempt[c], requests[c], hist[c], slept[c], ret[c],
      released[c], body[c], form[c], sentForm[c], result[c], raised[c],
      logged[c], runRaised[c], ctype[c], apath[c]>>

\* the sleeps that the attempts recorded in h call for
OwnSleeps(h) ==
    LET n == Cardinality({ i \in 1..Len(h) : IsRetryable(h[i]) /\ i < 3 })
    IN  [i \in 1..n |-> 2 ^ (i - 1)]

\* C18: two concurrent calls do not interfere: a step of one call leaves
\* every variable of the other call unchanged, and the attempts and sleeps
\* of each call follow from its own attempt outcomes.
C18_CallsIndependent ==
    [][ \A c \in Calls :
          /\ CallState(c)' # CallState(c) =>
                \A d \in Calls \ {c} : CallState(d)' = CallState(d)
          /\ slept'[c] = OwnSleeps(hist'[c])
          /\ requests'[c] \in {Len(hist'[c]), Len(hist'[c]) + 1}
          /\ attempt'[c] = Len(slept'[c]) - (IF pc'[c] = "sleep" THEN 1 ELSE 0) ]_vars

C18_Witness ==
    /\ pc[1] = "sleep" /\ attempt[1] = 1
    /\ pc[2] = "inflight" /\ attempt[2] = 0
    /\ fn[1] = "send_to_claude" /\ fn[2] = "send_to_claude"

\* the typed outcome the specified Transport gives for an attempt
SpecOutcome(o) ==
    IF IsSuccess(o) THEN "Success"
    ELSE IF IsRetryable(o) THEN "RetryableFailure"
    ELSE IF IsFatal(o) THEN "FatalFailure"
    ELSE "Unspecified"

\* the specified RetryPolicy.run with maxAttempts = 3 and baseDelay = 1s,
\* fed with the outcomes h
RECURSIVE PolicyRun(_)
PolicyRun(h) ==
    IF h = <<>>
    THEN [attempts |-> 0, sleeps |-> <<>>, final |-> "running"]
    ELSE LET prev == PolicyRun(SubSeq(h, 1, Len(h) - 1))
             attemptIndex == Len(h) - 1
             o == SpecOutcome(h[Len(h)])
         IN  IF prev.final # "running"
             THEN [prev EXCEPT !.final = "diverged"]
             ELSE IF o \in {"Success", "FatalFailure"}
             THEN [attempts |-> prev.attempts + 1, sleeps |-> prev.sleeps, final |-> o]
             ELSE IF attemptIndex + 1 < 3
             THEN [attempts |-> prev.attempts + 1,
                   sleeps |-> Append(prev.sleeps, 1 * (2 ^ attemptIndex)),
                   final |-> "running"]
             ELSE [attempts |-> prev.attempts + 1, sleeps |-> prev.sleeps,
                   final |-> "RetryableFailure"]

\* C19: on every sequence of 200 / 429 / 5xx / other status / timeout /
\* connection error outcomes the loop makes the attempts and sleeps of
\* RetryPolicy.run; a response stands for Success, None for a failure.
C19_RefinesRetryPolicy ==
    \A c \in Calls :
        (\A i \in 1..Len(hist[c]) : SpecOutcome(hist[c][i]) # "Unspecified") =>
            LET p == PolicyRun(hist[c])
            IN  /\ p.final # "diverged"
                /\ Len(hist[c]) = p.attempts
                /\ requests[c] \in {p.attempts, p.attempts + 1}
                /\ p.final # "running" => requests[c] = p.attempts
                /\ slept[c] = p.sleeps
                /\ (ret[c] = "response") <=> (p.final = "Success")
                /\ (ret[c] = "None") <=> (p.final \in {"RetryableFailure", "FatalFailure"})
                /\ (ret[c] = "pending") <=> (p.final = "running")

C19_Witness ==
    \E c \in Calls :
        /\ Len(hist[c]) = 3
        /\ hist[c][1].exc = "ClientError"
        /\ hist[c][2].exc = "none" /\ hist[c][2].status = 500
        /\ hist[c][3].exc = "none" /\ hist[c][3].status = 200
        /\ ret[c] = "response"

Outs(c) == [i \in 1..Len(hist[c]) |-> <<hist[c][i].status, hist[c][i].exc>>]

\* C20: two runs that see the same outcomes sleep the same durations and
\* return the same kind of result, and once both are over they have made
\* the same number of attempts.
C20_Deterministic ==
    \A c, d \in Calls :
        Outs(c) = Outs(d) =>
            /\ slept[c] = slept[d]
            /\ ret[c] = ret[d]
            /\ (Finished(c) /\ Finished(d)) => requests[c] = requests[d]

C20_Witness ==
    /\ Outs(1) = Outs(2)
    /\ Len(hist[1]) = 3
    /\ Finished(1) /\ Finished(2)
    /\ slept[1] = <<1, 2>>
    /\ slept[2] = <<1, 2>>

\* C21: when the caller reads the body of the response returned on status
\* 200, the response has not already been released by leaving the request
\* context inside _make_request_with_retry.
C21_ResponseUsableWhenRead ==
    \A c \in Calls :
        (pc[c] \in {"returned", "done"} /\ ret[c] = "response") => ~released[c]

\* C22: every run terminates: if each attempt and each sleep ends, a
\* started run returns, after at most 3 attempts and at most 2 sleeps.
C22_RunTerminates ==
    /\ [](\A c \in Calls :
            requests[c] <= 3 /\ Len(hist[c]) <= 3 /\ Len(slept[c]) <= 2)
    /\ \A c \in Calls :
         (pc[c] \in {"attempt", "inflight", "sleep"}) ~> Finished(c)

C22_Witness ==
    \E c \in Calls :
        /\ pc[c] = "done"
        /\ ret[c] = "None"
        /\ requests[c] = 3
        /\ Len(slept[c]) = 2
        /\ Len(hist[c]) = 3
        /\ hist[c][3].exc = "none" /\ hist[c][3].status = 429

\* C23: an exception in an attempt that is neither a timeout nor a client
\* error ends the run at once, at whatever attempt index: None is
\* returned, no sleep is started and no further attempt is made.
C23_OtherExceptionEndsRun ==
    \A c \in Calls : \A i \in 1..Len(hist[c]) :
        hist[c][i].exc = "OtherException" =>
            /\ i = Len(hist[c])
            /\ requests[c] = i
            /\ Len(slept[c]) = i - 1
            /\ ret[c] = "None"
            /\ pc[c] \in {"returned", "done"}
            /\ ~runRaised[c]

C23_Witness ==
    \E c \in Calls :
        /\ Len(hist[c]) = 3
        /\ hist[c][1].exc = "none" /\ hist[c][1].status = 503
        /\ hist[c][3].exc = "OtherException"
        /\ slept[c] = <<1, 2>>
        /\ ret[c] = "None"

\* C24 as stated: a cancellation takes effect only after the attempt in
\* flight has completed or timed out: every request issued by a cancelled
\* run has its outcome.
C24_CancelOnlyBetweenAttempts ==
    \A c \in Calls : pc[c] = "cancelled" => requests[c] = Len(hist[c])

\* C24 amended: a cancellation takes effect at the await the run is
\* suspended in, also in the middle of an attempt: CancelledError leaves
\* the run and the client function, the attempt in flight gets no outcome,
\* and no further attempt or sleep is made.
C24_CancelTakesEffectAtAwait ==
    [][ \A c \in Calls :
          /\ (pc'[c] = "cancelled" /\ pc[c] # "cancelled") =>
                /\ pc[c] \in {"inflight", "sleep"}
                /\ raised'[c]
                /\ requests'[c] = requests[c]
                /\ hist'[c] = hist[c]
                /\ slept'[c] = slept[c]
                /\ ret'[c] = "pending"
                /\ result'[c] = ""
          /\ pc[c] = "cancelled" => CallState(c)' = CallState(c) ]_vars

C24_Witness ==
    \E c \in Calls :
        /\ pc[c] = "cancelled"
        /\ requests[c] = 2
        /\ Len(hist[c]) = 1
        /\ raised[c]

\* C25: persistence is invoked only for a non-empty reply: every call of
\* _log_request_to_db and of _save_message_and_response carries a
\* non-empty response text, the one send_to_claude returned.
C25_PersistOnlyNonEmpty ==
    /\ \A c \in Calls : \A i \in 1..Len(logged[c]) :
          /\ logged[c][i].response_text # ""
          /\ ret[c] = "response"
    /\ \A i \in 1..Len(saves) :
          /\ saves[i].response_text # ""
          /\ saves[i].response_text = result[ClaudeCall]
          /\ ~raised[ClaudeCall]

C25_Witness ==
    /\ hpc = "done"
    /\ hkind = "photo"
    /\ Len(saves) = 1
    /\ saves[1].committed
    /\ saves[1].response_text = "hi"

Delivered(text) == \E i \in 1..Len(sent) : sent[i].delivered /\ sent[i].text = text

\* C26 as stated: when the handler has finished, every stored
\* message/response pair belongs to a reply that was delivered.
C26_PersistedOnlyIfDelivered ==
    hpc = "done" =>
        /\ \A i \in 1..Len(logged[ClaudeCall]) :
              logged[ClaudeCall][i].committed => Delivered(logged[ClaudeCall][i].response_text)
        /\ \A i \in 1..Len(saves) :
              saves[i].committed => Delivered(saves[i].response_text)

\* C26 amended: the pair written by send_to_claude is stored before the
\* handler answers, so it exists whether or not the answer is delivered;
\* the handler then answers with exactly that reply.  The pair written by
\* the photo and audio handlers is stored only after the reply was
\* delivered.
C26_HandlerSaveAfterDelivery ==
    /\ \A i \in 1..Len(saves) :
          /\ Len(sent) >= 1
          /\ sent[1].delivered
          /\ sent[1].text = saves[i].response_text
    /\ (logged[ClaudeCall] # <<>> /\ hpc = "ask") => sent = <<>>
    /\ (logged[ClaudeCall] # <<>> /\ hpc = "done") =>
          /\ Len(sent) >= 1
          /\ sent[1].text = logged[ClaudeCall][1].response_text

C26_Witness ==
    /\ hpc = "done"
    /\ hkind = "photo"
    /\ Len(logged[ClaudeCall]) = 1 /\ logged[ClaudeCall][1].committed
    /\ Len(sent) = 2
    /\ sent[1].text = "hi" /\ ~sent[1].delivered
    /\ saves = <<>>

\* C27: message and response are stored atomically: every stored message
\* row has exactly one stored response row that refers to it, every stored
\* response row refers to a stored message row, and a call that failed
\* (at the flush or at the commit) left no row.
C27_PairAtomic ==
    /\ \A m \in Stored :
          m.table = "messages" =>
              Cardinality({ r \in Stored : r.table = "responses" /\ r.message_id = m.id }) = 1
    /\ \A r \in Stored :
          r.table = "responses" =>
              \E m \in Stored : m.table = "messages" /\ m.id = r.message_id
    /\ \A c \in Calls : \A i \in 1..Len(logged[c]) :
          ~logged[c][i].committed => logged[c][i].rows = {}
    /\ \A i \in 1..Len(saves) : ~saves[i].committed => saves[i].rows = {}

C27_Witness ==
    /\ hpc = "done"
    /\ Len(logged[ClaudeCall]) = 1 /\ ~logged[ClaudeCall][1].committed
    /\ Len(saves) = 1 /\ saves[1].committed
    /\ Cardinality(Stored) = 2

\* C28: for one incoming message at most one message is delivered to the
\* user, on every path.
C28_AtMostOneDelivered ==
    Cardinality({ i \in 1..Len(sent) : sent[i].delivered }) <= 1

C28_Witness ==
    /\ hpc = "done"
    /\ hkind = "text"
    /\ Len(sent) = 2
    /\ ~sent[1].delivered
    /\ sent[2].delivered

\* C29: when handle_audio, handle_photo or transcribe_audio_from_bytes has
\* finished, every temporary file it created has been deleted, unless a
\* delete failed.
C29_TempFilesCleaned ==
    (hpc = "done" /\ ~delFailed) => tmp = {}

\* C30: _convert_audio_to_mp3 never raises; when the conversion fails
\* handle_audio goes on to transcription with the original file.
C30_ConversionNeverRaises ==
    /\ conv # "raised"
    /\ (conv = "False" /\ hpc # "pre") => hpath = TempPath("ogg")

\* a call of _initialize_ocr_reader by task t has returned
InitReturned(t) == otask[t].pc \in {"inited", "ocr", "done"} /\ otask[t].failure # "missing"

\* C31: under every interleaving of the calls of _initialize_ocr_reader the
\* reader is constructed successfully at most once, every call that returns
\* a reader returns the one kept in _ocr_reader, and a failed construction
\* leaves _ocr_reader None: a call returns None only after its own
\* construction failed, so a later call constructs again.
C31_ReaderBuiltOnce ==
    /\ built <= 1
    /\ ocr_reader = built
    /\ \A t \in OcrTasks :
         InitReturned(t) =>
           /\ otask[t].got \in {0, ocr_reader}
           /\ otask[t].got = 0 => otask[t].tried
    /\ \A t1, t2 \in OcrTasks :
         InitReturned(t1) /\ InitReturned(t2) /\ otask[t1].got # 0 /\ otask[t2].got # 0
           => otask[t1].got = otask[t2].got

\* one call failed to construct the reader, a later one constructed it, and
\* a third one got the same reader without constructing
C31_Witness ==
    \E t1, t2, t3 \in OcrTasks :
      /\ InitReturned(t1) /\ otask[t1].tried /\ otask[t1].got = 0
      /\ InitReturned(t2) /\ otask[t2].tried /\ otask[t2].got = 1
      /\ InitReturned(t3) /\ ~otask[t3].tried /\ otask[t3].got = 1
      /\ built = 1


\* the rows of the users table with telegram id tid
UsersOf(tid) == { r \in users : r.telegram_id = tid }

\* every row of the table is still there, with its first_message_date
FirstDateKept ==
    \A r \in users : \E q \in users' :
        /\ q.id = r.id
        /\ q.telegram_id = r.telegram_id
        /\ q.first_message_date = r.first_message_date

\* C32: while handlers run _ensure_user concurrently, the users table never
\* holds more than one row for a telegram id, no step changes the
\* first_message_date of a row that exists, and no failure inside
\* _ensure_user (a uniqueness conflict of two concurrent first messages of
\* one user included) leaves it as an exception to the calling handler.
C32_OneUserRowNoAbort ==
    /\ [](/\ \A tid \in TelegramIds : Cardinality(UsersOf(tid)) <= 1
          /\ \A t \in UserTasks : ~etask[t].raised)
    /\ [][FirstDateKept]_vars

\* two handlers of first messages of one user ran concurrently: one stored
\* the row, the other one's commit failed on the unique constraint and it
\* returned normally
C32_Witness ==
    \E t1, t2 \in UserTasks :
      /\ t1 # t2
      /\ etask[t1].telegram_id = etask[t2].telegram_id
      /\ etask[t1].pc = "done" /\ etask[t1].err = "none" /\ etask[t1].found = 0
      /\ etask[t2].pc = "done" /\ etask[t2].err = "IntegrityError" /\ ~etask[t2].raised
      /\ Cardinality(UsersOf(etask[t1].telegram_id)) = 1


\* the stage before send_to_claude returned text to the handler
StageText ==
    IF hkind = "photo" /\ ocrText # <<>> THEN ocrText
    ELSE IF hkind = "audio" /\ pc[TranscribeCall] = "done" /\ ~raised[TranscribeCall]
    THEN <<result[TranscribeCall]>>
    ELSE <<>>

\* the handler has finished after its OCR / transcription returned ""
EmptyStage == hpc = "done" /\ StageText = <<"">>

\* the handler called send_to_claude
AskedClaude == pc[ClaudeCall] # "idle"

StageMsg(k) == IF k = "photo" THEN OcrFailedMsg ELSE TranscribeFailedMsg

\* C33 as stated: handle_photo and handle_audio call send_to_claude only
\* after their OCR / transcription returned non-empty text, and on empty
\* text exactly one message, the explanatory one, is sent and neither a
\* completion request nor a persistence call is made.
C33_GatedOneMessage ==
    /\ (AskedClaude /\ hkind \in {"photo", "audio"}) =>
          StageText # <<>> /\ StageText[1] # ""
    /\ EmptyStage =>
          /\ Len(sent) = 1 /\ sent[1].text = StageMsg(hkind)
          /\ ~AskedClaude /\ logged[ClaudeCall] = <<>> /\ saves = <<>>

\* C33 amended: handle_photo and handle_audio call send_to_claude only after
\* their OCR / transcription returned non-empty text; on empty text the
\* handler answers the explanatory text, which is its only message when the
\* answer is delivered, and when that answer raises it tries once more with
\* its fixed "an error occurred" text; it makes no completion request and
\* no persistence call.
C33_GatedExplanatoryOrFallback ==
    /\ (AskedClaude /\ hkind \in {"photo", "audio"}) =>
          StageText # <<>> /\ StageText[1] # ""
    /\ EmptyStage =>
          /\ Len(sent) \in {1, 2}
          /\ sent[1].text = StageMsg(hkind)
          /\ Len(sent) = 1 <=> sent[1].delivered
          /\ Len(sent) = 2 => sent[2].text = GenericError(hkind)
          /\ ~AskedClaude /\ requests[ClaudeCall] = 0
          /\ logged[ClaudeCall] = <<>> /\ saves = <<>>

\* transcribe_audio returned "", the answer with the explanatory text
\* raised and the fixed error text was delivered instead
C33_Witness ==
    /\ hkind = "audio"
    /\ EmptyStage
    /\ sent = <<[text |-> TranscribeFailedMsg, delivered |-> FALSE],
                [text |-> GenericError("audio"), delivered |-> TRUE]>>
    /\ ~AskedClaude


\* the handler got a photo or an audio file reported larger than 20 MB
OversizedFile == hkind \in {"photo", "audio"} /\ fsize > 20 * 1024 * 1024

\* nothing was downloaded, written, recognised, transcribed, asked or stored
NoWorkDone ==
    /\ hpc \in {"pre", "done"}
    /\ tmp = {} /\ ~delFailed /\ hpath = <<>> /\ conv = "none"
    /\ ocrText = <<>>
    /\ \A c \in Calls : pc[c] = "idle" /\ requests[c] = 0 /\ logged[c] = <<>>
    /\ saves = <<>>

\* C34 as stated: for a photo or audio file reported larger than 20 MB the
\* handler sends the "file too large" message and returns without a
\* download, a temporary file, OCR / transcription, send_to_claude or a
\* persisted exchange.
C34_OversizedRejected ==
    OversizedFile =>
        /\ NoWorkDone
        /\ hpc = "done" => Len(sent) >= 1 /\ sent[1].text = TooLargeMsg

\* C34 amended: for a photo or audio file reported larger than 20 MB the
\* handler never downloads the file, creates a temporary file, runs OCR /
\* transcription, calls send_to_claude or persists an exchange; if nothing
\* raised before the size check it answers the "file too large" text, alone
\* when delivered and followed by one attempt at the fixed "an error
\* occurred" text when that answer raises; if the chat action before the
\* check raised, its only message is the fixed "an error occurred" text.
C34_OversizedNoWork ==
    OversizedFile =>
        /\ NoWorkDone
        /\ hpc = "done" =>
              /\ Len(sent) \in {1, 2}
              /\ sent[1].text \in {TooLargeMsg, GenericError(hkind)}
              /\ sent[1].text = TooLargeMsg => (Len(sent) = 1 <=> sent[1].delivered)
              /\ sent[1].text = GenericError(hkind) => Len(sent) = 1
              /\ Len(sent) = 2 => sent[2].text = GenericError(hkind)

\* a photo one byte over 20 MB was answered with the "file too large" text
C34_Witness ==
    /\ hkind = "photo"
    /\ fsize = 20 * 1024 * 1024 + 1
    /\ hpc = "done"
    /\ sent = <<[text |-> TooLargeMsg, delivered |-> TRUE]>>
    /\ NoWorkDone


\* C35: extract_text_from_photo never raises; a missing file, a reader that
\* cannot be initialised, an OCR timeout, an OCR that finds nothing and any
\* exception give the empty string; and when it has returned, the
\* compressed temporary image it created is gone (unless the unlink itself
\* failed).
C35_EmptyOnFailureTempRemoved ==
    \A t \in OcrTasks :
        (otask[t].via = "extract" /\ otask[t].pc = "done") =>
            /\ ~otask[t].raised
            /\ otask[t].failure # "none" => otask[t].text = ""
            /\ ~otask[t].unlinkFailed => ~otask[t].temp

====
